---------------------------- MODULE Spec2Model ----------------------------
(***************************************************************************)
(* Model of the RadioButtonSelect component                               *)
(* (packages/cli/src/ui/components/shared/RadioButtonSelect.tsx): the     *)
(* cursor, the scroll window, the numeric-entry buffer and its debounce   *)
(* timer, driven by key events, timer firings, focus changes and unmount. *)
(* A second specification, BgSpec, models the actions of the /background  *)
(* subcommands applied to an argument string.                             *)
(***************************************************************************)
EXTENDS Integers, Sequences, FiniteSets, TLC

(* ------------------------------ bounds -------------------------------- *)
MaxItems == 12
MaxWindow == 3
MaxBuf == 2
MaxNav == 4
LiveMaxItems == 2
LiveMaxWindow == 1
MaxArgLen == 4

(* -------------------------- program constants ------------------------- *)
CommitDelay == 250
ResetDelay == 500

(* null of the numberInputTimer ref *)
NoTimer == 0

VARIABLES
  items,            \* the items prop: sequence of item values
  maxItemsToShow,   \* the maxItemsToShow prop (window size)
  isFocused,        \* the isFocused prop
  isFocusedSupplied, \* whether the parent passes isFocused at all (it has no default)
  error,            \* "none", or the exception that left the key handler
  phase,            \* "constructed" (first render done), "mounted", "unmounted", "crashed"
  activeIndex,      \* useState(initialIndex)
  scrollOffset,     \* useState(0)
  numberInput,      \* useState(''): sequence of digit characters
  numberInputTimer, \* useRef(null): handle of the last scheduled timer
  pending,          \* the runtime's set of scheduled, not yet fired timers
  lastEvent,        \* history: the operation that produced this state
  emitted,          \* history: callbacks emitted by the last operation
  prevActive,       \* history: activeIndex before the last operation
  prevScroll,       \* history: scrollOffset before the last operation
  prevTimer,        \* history: kind of timer pending before the last operation
  prevInput,        \* history: numberInput before the last digit, return, ignored key or timer firing
  digitFrom,        \* history: activeIndex before the digit typed one or two operations ago
  lostFocusWith,    \* history: kind of timer pending when focus was lost ("none" while focused)
  navOnly,          \* history: only up/down keys have been handled so far
  startIndex,       \* history: initialIndex, kept while navOnly
  downs,            \* history: number of down keys while navOnly
  ups,              \* history: number of up keys while navOnly
  bgPhase,          \* "idle" (no command), "ready" (args given), "done" (action returned)
  bgArgs,           \* the args string of the subcommand: sequence of characters
  bgAgent,          \* whether the background agent manager has an active agent
  bgCommand,        \* name of the subcommand whose action ran
  bgResult,         \* messageType of the returned message, or "throws"
  bgCalls,          \* operations invoked on the active agent
  bgHistory         \* entries added to the client history

vars == <<items, maxItemsToShow, isFocused, isFocusedSupplied, error, phase, activeIndex, scrollOffset,
          numberInput, numberInputTimer, pending, lastEvent, emitted,
          prevActive, prevScroll, prevTimer, prevInput, digitFrom, lostFocusWith, navOnly,
          startIndex,
          downs, ups, bgPhase, bgArgs, bgAgent, bgCommand, bgResult, bgCalls,
          bgHistory>>

bgVars == <<bgPhase, bgArgs, bgAgent, bgCommand, bgResult, bgCalls, bgHistory>>

widgetVars ==
  <<items, maxItemsToShow, isFocused, isFocusedSupplied, error, phase,
    activeIndex, scrollOffset, numberInput, numberInputTimer, pending,
    lastEvent, emitted, prevActive, prevScroll, prevTimer, prevInput,
    digitFrom, lostFocusWith, navOnly, startIndex, downs, ups>>

(* ----------------------------- helpers -------------------------------- *)
Max(a, b) == IF a >= b THEN a ELSE b
Min(a, b) == IF a <= b THEN a ELSE b

NoIndex == 0 - 1

(* the items prop: n items with distinct values *)
MakeItems(n) == [i \in 1..n |-> 100 + i]

(* what reading past the end of items yields *)
Undefined == 0

(* items[i] for a 0-based index i *)
ValueAt(i) == IF (i + 1) \in DOMAIN items THEN items[i + 1] ELSE Undefined

DigitChars == {"0", "1", "2", "3", "4", "5", "6", "7", "8", "9"}

DigitValue(c) ==
  CASE c = "0" -> 0 [] c = "1" -> 1 [] c = "2" -> 2 [] c = "3" -> 3
    [] c = "4" -> 4 [] c = "5" -> 5 [] c = "6" -> 6 [] c = "7" -> 7
    [] c = "8" -> 8 [] c = "9" -> 9

(* Number.parseInt(s, 10) of a non-empty string of decimal digits *)
RECURSIVE ParseInt(_)
ParseInt(s) ==
  IF Len(s) = 0 THEN 0
  ELSE 10 * ParseInt(SubSeq(s, 1, Len(s) - 1)) + DigitValue(s[Len(s)])

(* key events as ink delivers them: the input text and the key flags *)
KeyEvent(in, up, down, ret) ==
  [input |-> in, upArrow |-> up, downArrow |-> down, return |-> ret]
ArrowUp == KeyEvent("", TRUE, FALSE, FALSE)
ArrowDown == KeyEvent("", FALSE, TRUE, FALSE)
Return == KeyEvent("", FALSE, FALSE, TRUE)
Char(c) == KeyEvent(c, FALSE, FALSE, FALSE)

IsUp(ev) == ev.input = "k" \/ ev.upArrow
IsDown(ev) == ev.input = "j" \/ ev.downArrow
IsDigit(ev) == ev.input \in DigitChars

(* mutation: the callback receives the value of the item active before the move *)
OnHighlightStale(v) == <<[cb |-> "onHighlight", value |-> ValueAt(activeIndex)]>>

OnHighlight(v) == <<[cb |-> "onHighlight", value |-> v]>>
OnSelect(v) == <<[cb |-> "onSelect", value |-> v]>>

(* items[i]!.value throws a TypeError when items[i] is undefined *)
ReadThrows(i) == (i + 1) \notin DOMAIN items

(* isActive option of useInput: the value of isFocused && items.length > 0, *)
(* which is undefined when isFocused is not supplied                       *)
IsActive ==
  IF ~isFocusedSupplied THEN "undefined"
  ELSE IF isFocused /\ Len(items) > 0 THEN "true" ELSE "false"

(* mutation: the offset is recomputed even when the active row is visible *)
ScrollEffectAlwaysRecomputes(a, s, w, n) ==
  LET newScrollOffset == Max(0, Min(a - w + 1, n - w))
  IN IF a < s THEN a ELSE newScrollOffset

(* mutation: the new offset lacks the + 1 *)
ScrollEffectOffByOne(a, s, w, n) ==
  LET newScrollOffset == Max(0, Min(a - w, n - w))
  IN IF a < s THEN a
     ELSE IF a >= s + w THEN newScrollOffset
     ELSE s

(* one run of the scroll effect: the scrollOffset it sets *)
ScrollEffect(a, s, w, n) ==
  LET newScrollOffset == Max(0, Min(a - w + 1, n - w))
  IN IF a < s THEN a
     ELSE IF a >= s + w THEN newScrollOffset
     ELSE s

(* the effect re-runs after each scrollOffset change until it sets nothing new *)
RECURSIVE SettleScroll(_, _, _, _)
SettleScroll(a, s, w, n) ==
  LET s2 == ScrollEffect(a, s, w, n)
  IN IF s2 = s THEN s ELSE SettleScroll(a, s2, w, n)

(* mutation: the handler forgets to cancel the scheduled timer *)
ClearTimerSkipped(p, ref) == p

(* mutation: the null test of the ref is inverted *)
ClearTimerInverted(p, ref) ==
  IF ref = NoTimer THEN {t \in p : t.id # ref} ELSE p

(* if (numberInputTimer.current) clearTimeout(numberInputTimer.current) *)
ClearTimer(p, ref) ==
  IF ref # NoTimer THEN {t \in p : t.id # ref} ELSE p

(* mutation: the cleanup does not cancel the timer *)
UnmountCleanupMissing(p, ref) == p

(* cleanup returned by the mount effect *)
UnmountCleanup(p, ref) ==
  IF ref # NoTimer THEN {t \in p : t.id # ref} ELSE p

(* handle returned by setTimeout: distinct from every scheduled timer *)
NewTimerId(p) ==
  CHOOSE i \in 1..(Cardinality(p) + 1) : \A t \in p : t.id # i

TimerKind(p) ==
  IF p = {} THEN "none"
  ELSE IF \E t \in p : t.kind = "commit" THEN "commit" ELSE "reset"

(* mutation: up does not wrap and leaves the list *)
UpIndexBelowZero(a, n) == a - 1

(* mutation: up stops at the first item *)
UpIndexNoWrap(a, n) == IF a > 0 THEN a - 1 ELSE 0

UpIndex(a, n) == IF a > 0 THEN a - 1 ELSE n - 1

(* mutation: down stops at the last item *)
DownIndexNoWrap(a, n) == IF a < n - 1 THEN a + 1 ELSE a

DownIndex(a, n) == IF a < n - 1 THEN a + 1 ELSE 0

(* mutation: the target is taken from the digit just typed *)
TargetIndexLastDigit(newNumberInput) ==
  DigitValue(newNumberInput[Len(newNumberInput)]) - 1

(* const targetIndex = Number.parseInt(newNumberInput, 10) - 1 *)
TargetIndex(newNumberInput) == ParseInt(newNumberInput) - 1

(* mutation: the upper bound of the range test is missing *)
TargetInRangeNoUpper(targetIndex, n) == targetIndex >= 0

TargetInRange(targetIndex, n) == targetIndex >= 0 /\ targetIndex < n

(* mutation: the commit closure reads the item active when the digit arrived *)
CommitTimerStale(id, targetIndex) ==
  [id |-> id, kind |-> "commit", value |-> ValueAt(activeIndex), delay |-> CommitDelay]

(* setTimeout(() => { onSelect(targetItem.value); setNumberInput('') }, 250) *)
CommitTimer(id, targetIndex) ==
  [id |-> id, kind |-> "commit", value |-> ValueAt(targetIndex), delay |-> CommitDelay]

(* setTimeout(() => { setNumberInput('') }, 500) *)
ResetTimer(id) ==
  [id |-> id, kind |-> "reset", value |-> Undefined, delay |-> ResetDelay]

(* Array.prototype.slice(start, end): negative indices count from the end *)
JsSlice(arr, start, end) ==
  LET n == Len(arr)
      from == IF start < 0 THEN Max(n + start, 0) ELSE Min(start, n)
      to == IF end < 0 THEN Max(n + end, 0) ELSE Min(end, n)
  IN SubSeq(arr, from + 1, to)

(* mutation: the end of the slice is the window size, not offset + size *)
VisibleItemsEndAtWindow == JsSlice(items, scrollOffset, maxItemsToShow)

(* const visibleItems = items.slice(scrollOffset, scrollOffset + maxItemsToShow) *)
VisibleItems == JsSlice(items, scrollOffset, scrollOffset + maxItemsToShow)

(* ------------------------------- Init --------------------------------- *)
Init ==
  /\ \E n \in 0..MaxItems : items = MakeItems(n)
  /\ maxItemsToShow \in 1..MaxWindow
  /\ isFocusedSupplied \in BOOLEAN
  /\ isFocused \in (IF isFocusedSupplied THEN BOOLEAN ELSE {FALSE})
  /\ error = "none"
  /\ phase = "constructed"
  /\ \E initialIndex \in 0..Max(0, Len(items) - 1) :
       /\ activeIndex = initialIndex
       /\ startIndex = initialIndex
  /\ scrollOffset = 0
  /\ numberInput = <<>>
  /\ numberInputTimer = NoTimer
  /\ pending = {}
  /\ lastEvent = "init"
  /\ emitted = <<>>
  /\ prevActive = activeIndex
  /\ prevScroll = 0
  /\ prevTimer = "none"
  /\ prevInput = <<>>
  /\ digitFrom = NoIndex
  /\ lostFocusWith = "none"
  /\ navOnly = TRUE
  /\ downs = 0
  /\ ups = 0
  /\ bgPhase = "idle"
  /\ bgArgs = <<>>
  /\ bgAgent = FALSE
  /\ bgCommand = "none"
  /\ bgResult = "none"
  /\ bgCalls = <<>>
  /\ bgHistory = <<>>

(* ------------------------- history bookkeeping ------------------------ *)
(* an operation other than up/down ends the up/down-only prefix *)
EndNavOnly ==
  /\ navOnly' = FALSE
  /\ startIndex' = 0
  /\ downs' = 0
  /\ ups' = 0

KeepNav == UNCHANGED <<navOnly, startIndex, downs, ups>>

CountNav(d, u) ==
  IF navOnly /\ downs + d <= MaxNav /\ ups + u <= MaxNav
  THEN /\ navOnly' = TRUE
       /\ startIndex' = startIndex
       /\ downs' = downs + d
       /\ ups' = ups + u
  ELSE EndNavOnly

Record(ev) ==
  /\ lastEvent' = ev
  /\ prevActive' = activeIndex
  /\ prevScroll' = scrollOffset
  /\ prevTimer' = TimerKind(pending)
  /\ lostFocusWith' =
       IF ev = "focus"
       THEN (IF isFocused THEN TimerKind(pending) ELSE "none")
       ELSE lostFocusWith

KeepDigitFrom ==
  digitFrom' = IF lastEvent = "digit" THEN digitFrom ELSE NoIndex

(* ------------------------------ actions ------------------------------- *)
(* first commit: the effects run (scroll effect, cleanup registration) *)
Mount ==
  /\ phase = "constructed"
  /\ phase' = "mounted"
  /\ scrollOffset' = SettleScroll(activeIndex, scrollOffset, maxItemsToShow, Len(items))
  /\ emitted' = <<>>
  /\ Record("mount")
  /\ prevInput' = <<>>
  /\ digitFrom' = NoIndex
  /\ KeepNav
  /\ UNCHANGED bgVars /\ UNCHANGED <<items, maxItemsToShow, isFocusedSupplied, error, isFocused, activeIndex, numberInput,
                 numberInputTimer, pending>>

(* the parent re-renders the component with another isFocused *)
SetFocused ==
  /\ phase = "mounted"
  /\ isFocusedSupplied
  /\ isFocused' = ~isFocused
  /\ emitted' = <<>>
  /\ Record("focus")
  /\ prevInput' = <<>>
  /\ digitFrom' = NoIndex
  /\ KeepNav
  /\ UNCHANGED bgVars /\ UNCHANGED <<items, maxItemsToShow, isFocusedSupplied, error, phase, activeIndex, scrollOffset,
                 numberInput, numberInputTimer, pending>>

(* cleanup of the unmount effect *)
Unmount ==
  /\ phase = "mounted"
  /\ phase' = "unmounted"
  /\ pending' = UnmountCleanup(pending, numberInputTimer)
  /\ emitted' = <<>>
  /\ Record("unmount")
  /\ prevInput' = <<>>
  /\ digitFrom' = NoIndex
  /\ EndNavOnly
  /\ UNCHANGED bgVars /\ UNCHANGED <<items, maxItemsToShow, isFocusedSupplied, error, isFocused, activeIndex, scrollOffset,
                 numberInput, numberInputTimer>>

(* mutation: the return key is missing from the clearing condition *)
ShouldClearNavOnly(ev) == IsUp(ev) \/ IsDown(ev)

(* mutation: the buffer is cleared on every key *)
ShouldClearAlways(ev) == TRUE

(* the keys on which the handler first clears the number input (lines 87-93) *)
ShouldClear(ev) == IsUp(ev) \/ IsDown(ev) \/ ev.return

(* mutation: the first step resets the buffer but leaves the timer scheduled *)
ClearedTimersKept(ev) == pending

(* mutation: the first step cancels the timer but keeps the buffer *)
ClearedInputKept(ev) == numberInput

(* the timers left, and the numberInput asked for, by that first step *)
ClearedTimers(ev) ==
  IF ShouldClear(ev) THEN ClearTimer(pending, numberInputTimer) ELSE pending
ClearedInput(ev) == IF ShouldClear(ev) THEN <<>> ELSE numberInput

(* a TypeError leaves the handler: clearTimeout has run, the state updates *)
(* the handler asked for are never rendered, no callback has been called   *)
Throw(cleared) ==
  /\ pending' = cleared
  /\ error' = "TypeError"
  /\ phase' = "crashed"
  /\ emitted' = <<>>
  /\ Record("crash")
  /\ prevInput' = <<>>
  /\ digitFrom' = NoIndex
  /\ EndNavOnly
  /\ UNCHANGED bgVars /\ UNCHANGED <<items, maxItemsToShow, isFocused, isFocusedSupplied,
                 activeIndex, scrollOffset, numberInput, numberInputTimer>>

(* useInput handler, up branch *)
HandleUp(ev) ==
  /\ IsUp(ev)
  /\ LET newIndex == UpIndex(activeIndex, Len(items))
         cleared == ClearedTimers(ev)
     IN IF ReadThrows(newIndex) THEN Throw(cleared) ELSE
        /\ pending' = cleared
        /\ numberInput' = ClearedInput(ev)
        /\ activeIndex' = newIndex
        /\ emitted' = OnHighlight(ValueAt(newIndex))
        /\ scrollOffset' = SettleScroll(newIndex, scrollOffset, maxItemsToShow, Len(items))
        /\ Record("up")
        /\ prevInput' = <<>>
        /\ KeepDigitFrom
        /\ CountNav(0, 1)
        /\ UNCHANGED bgVars /\ UNCHANGED <<items, maxItemsToShow, isFocusedSupplied, error, isFocused, phase, numberInputTimer>>

(* useInput handler, down branch *)
HandleDown(ev) ==
  /\ ~IsUp(ev)
  /\ IsDown(ev)
  /\ LET newIndex == DownIndex(activeIndex, Len(items))
         cleared == ClearedTimers(ev)
     IN IF ReadThrows(newIndex) THEN Throw(cleared) ELSE
        /\ pending' = cleared
        /\ numberInput' = ClearedInput(ev)
        /\ activeIndex' = newIndex
        /\ emitted' = OnHighlight(ValueAt(newIndex))
        /\ scrollOffset' = SettleScroll(newIndex, scrollOffset, maxItemsToShow, Len(items))
        /\ Record("down")
        /\ prevInput' = <<>>
        /\ KeepDigitFrom
        /\ CountNav(1, 0)
        /\ UNCHANGED bgVars /\ UNCHANGED <<items, maxItemsToShow, isFocusedSupplied, error, isFocused, phase, numberInputTimer>>

(* useInput handler, return branch *)
HandleReturn(ev) ==
  /\ ~IsUp(ev)
  /\ ~IsDown(ev)
  /\ ev.return
  /\ LET cleared == ClearedTimers(ev)
     IN IF ReadThrows(activeIndex) THEN Throw(cleared) ELSE
        /\ pending' = cleared
        /\ numberInput' = ClearedInput(ev)
        /\ emitted' = OnSelect(ValueAt(activeIndex))
        /\ Record("confirm")
        /\ prevInput' = numberInput
        /\ KeepDigitFrom
        /\ EndNavOnly
        /\ UNCHANGED bgVars /\ UNCHANGED <<items, maxItemsToShow, isFocusedSupplied, error, isFocused, phase, activeIndex,
                 scrollOffset, numberInputTimer>>

(* useInput handler, numeric branch *)
HandleDigit(ev) ==
  /\ ~IsUp(ev)
  /\ ~IsDown(ev)
  /\ ~ev.return
  /\ IsDigit(ev)
  /\ Len(numberInput) < MaxBuf
  /\ LET cleared == ClearTimer(ClearedTimers(ev), numberInputTimer)
         newNumberInput == Append(numberInput, ev.input)
         targetIndex == TargetIndex(newNumberInput)
         id == NewTimerId(cleared)
     IN /\ numberInput' = newNumberInput
        /\ numberInputTimer' = id
        /\ IF TargetInRange(targetIndex, Len(items))
           THEN /\ activeIndex' = targetIndex
                /\ emitted' = OnHighlight(ValueAt(targetIndex))
                /\ pending' = cleared \cup {CommitTimer(id, targetIndex)}
                /\ scrollOffset' = SettleScroll(targetIndex, scrollOffset,
                                                maxItemsToShow, Len(items))
           ELSE /\ activeIndex' = activeIndex
                /\ emitted' = <<>>
                /\ pending' = cleared \cup {ResetTimer(id)}
                /\ scrollOffset' = scrollOffset
  /\ Record("digit")
  /\ prevInput' = numberInput
  /\ digitFrom' = activeIndex
  /\ EndNavOnly
  /\ UNCHANGED bgVars /\ UNCHANGED <<items, maxItemsToShow, isFocusedSupplied, error, isFocused, phase>>

(* useInput handler, any other key: no branch is taken *)
HandleOther(ev) ==
  /\ ~IsUp(ev)
  /\ ~IsDown(ev)
  /\ ~ev.return
  /\ ~IsDigit(ev)
  /\ pending' = ClearedTimers(ev)
  /\ numberInput' = ClearedInput(ev)
  /\ emitted' = <<>>
  /\ Record("other")
  /\ prevInput' = numberInput
  /\ KeepDigitFrom
  /\ EndNavOnly
  /\ UNCHANGED bgVars /\ UNCHANGED <<items, maxItemsToShow, isFocusedSupplied, error, isFocused, phase, activeIndex,
                 scrollOffset, numberInputTimer>>

(* the digit keys typed: the handler accepts all of DigitChars, and these   *)
(* reach every case it distinguishes (zero, in range, out of range, and     *)
(* two-digit numbers on either side of the item count)                      *)
DigitKeys == {"0", "1", "2", "3", "9"}

KeyEvents ==
  {ArrowUp, ArrowDown, Return, Char("k"), Char("j"), Char("x")}
    \cup {Char(c) : c \in DigitKeys}

(* ink calls the handler while the component is mounted, unless the isActive *)
(* option is false: an isActive left undefined keeps its default, active     *)
InputEnabled == phase = "mounted" /\ IsActive # "false"

Up == InputEnabled /\ \E ev \in KeyEvents : HandleUp(ev)
Down == InputEnabled /\ \E ev \in KeyEvents : HandleDown(ev)
Confirm == InputEnabled /\ \E ev \in KeyEvents : HandleReturn(ev)
Digit == InputEnabled /\ \E ev \in KeyEvents : HandleDigit(ev)
Other == InputEnabled /\ \E ev \in KeyEvents : HandleOther(ev)

(* a scheduled timer elapses: the callback given to setTimeout runs *)
TimerFire ==
  \E t \in pending :
    /\ phase # "crashed"
    /\ pending' = pending \ {t}
    /\ emitted' = IF t.kind = "commit" THEN OnSelect(t.value) ELSE <<>>
    /\ numberInput' = IF phase = "mounted" THEN <<>> ELSE numberInput
    /\ Record("timer")
    /\ prevInput' = numberInput
    /\ digitFrom' = NoIndex
    /\ EndNavOnly
    /\ UNCHANGED bgVars /\ UNCHANGED <<items, maxItemsToShow, isFocusedSupplied, error, isFocused, phase, activeIndex,
                   scrollOffset, numberInputTimer>>

Next ==
  \/ Mount
  \/ SetFocused
  \/ Unmount
  \/ Up
  \/ Down
  \/ Confirm
  \/ Digit
  \/ Other
  \/ TimerFire

Spec == Init /\ [][Next]_vars

(* the same component on short lists, with the runtime's guarantee that a *)
(* scheduled timer that is not cancelled eventually fires                 *)
LiveInit ==
  /\ Init
  /\ Len(items) <= LiveMaxItems
  /\ maxItemsToShow <= LiveMaxWindow

LiveSpec == LiveInit /\ [][Next]_vars /\ WF_vars(TimerFire)

(* ------------------- the /background subcommands ---------------------- *)
(* Each subcommand's action is a function of its args string and of the   *)
(* active background agent.  A string is a sequence of characters; the    *)
(* agent's operations are recorded in bgCalls in the order invoked, the   *)
(* entries given to the client's addHistory in bgHistory.                 *)

WhitespaceChars == {" ", "\t"}

ArgChars == WhitespaceChars \cup {"a", "b"}

ArgStrings == UNION {[1..n -> ArgChars] : n \in 0..MaxArgLen}

(* String.prototype.trim *)
RECURSIVE TrimStart(_)
TrimStart(s) ==
  IF s = <<>> THEN s
  ELSE IF Head(s) \in WhitespaceChars THEN TrimStart(Tail(s)) ELSE s

RECURSIVE TrimEnd(_)
TrimEnd(s) ==
  IF s = <<>> THEN s
  ELSE IF s[Len(s)] \in WhitespaceChars
       THEN TrimEnd(SubSeq(s, 1, Len(s) - 1))
       ELSE s

Trim(s) == TrimEnd(TrimStart(s))

(* String.prototype.includes, indexOf (0-based, -1 when absent) and       *)
(* substring (0-based, end exclusive, a negative end counts as 0)         *)
Includes(s, c) == \E i \in DOMAIN s : s[i] = c

IndexOf(s, c) ==
  IF Includes(s, c)
  THEN (CHOOSE i \in DOMAIN s : s[i] = c /\ \A j \in 1..(i - 1) : s[j] # c) - 1
  ELSE NoIndex

Substring(s, from, to) == SubSeq(s, from + 1, Max(0, to))

SubstringFrom(s, from) == SubSeq(s, from + 1, Len(s))

(* `!args` *)
ArgMissing(args) == args = <<>>

(* `!args || args.trim() === ''` *)
ArgBlank(args) == ArgMissing(args) \/ Trim(args) = <<>>

(* the test deleteSubcommand makes before forwarding *)
DeleteRejects(args) == ArgMissing(args)

(* the test messageSubcommand makes before forwarding *)
MessageRejects(args) == ArgBlank(args) \/ ~Includes(Trim(args), " ")

MessageId(args) == Substring(args, 0, IndexOf(args, " "))

MessageText(args) == SubstringFrom(args, IndexOf(args, " ") + 1)

TaskId == "id"

AddClientHistory(text) ==
  <<[role |-> "user", text |-> text], [role |-> "model", text |-> "Got it."]>>

BgReturn(cmd, result, calls, history) ==
  /\ bgPhase = "ready"
  /\ bgPhase' = "done"
  /\ bgCommand' = cmd
  /\ bgResult' = result
  /\ bgCalls' = calls
  /\ bgHistory' = history
  /\ UNCHANGED <<bgArgs, bgAgent>>
  /\ UNCHANGED widgetVars

ErrorMessage(cmd) == BgReturn(cmd, "error", <<>>, <<>>)

(* getActiveAgent throws when there is no active agent; otherwise the     *)
(* operation is invoked, then the history entries are added               *)
Forward(cmd, call, history) ==
  IF bgAgent
  THEN BgReturn(cmd, "info", <<call>>, history)
  ELSE BgReturn(cmd, "throws", <<>>, <<>>)

BgStart ==
  IF ArgBlank(bgArgs)
  THEN ErrorMessage("start")
  ELSE Forward("start", [op |-> "startTask", prompt |-> bgArgs],
               AddClientHistory([did |-> "started", id |-> TaskId,
                                 prompt |-> bgArgs]))

BgStop ==
  IF ArgBlank(bgArgs)
  THEN ErrorMessage("stop")
  ELSE Forward("stop", [op |-> "cancelTask", id |-> bgArgs],
               AddClientHistory([did |-> "canceled", id |-> bgArgs]))

BgList ==
  IF ~ArgBlank(bgArgs)
  THEN ErrorMessage("list")
  ELSE Forward("list", [op |-> "listTasks"], <<>>)

BgGet ==
  IF ArgBlank(bgArgs)
  THEN ErrorMessage("get")
  ELSE Forward("get", [op |-> "getTask", id |-> bgArgs], <<>>)

BgLogs ==
  IF ArgBlank(bgArgs)
  THEN ErrorMessage("logs")
  ELSE Forward("logs", [op |-> "getTask", id |-> bgArgs], <<>>)

BgMessage ==
  IF MessageRejects(bgArgs)
  THEN ErrorMessage("message")
  ELSE Forward("message",
               [op |-> "messageTask", id |-> MessageId(bgArgs),
                message |-> MessageText(bgArgs)],
               AddClientHistory([did |-> "sent", id |-> MessageId(bgArgs),
                                 message |-> MessageText(bgArgs)]))

BgDelete ==
  IF DeleteRejects(bgArgs)
  THEN ErrorMessage("delete")
  ELSE Forward("delete", [op |-> "deleteTask", id |-> bgArgs],
               AddClientHistory([did |-> "deleted", id |-> bgArgs]))

(* a subcommand action applied to any args string, with or without an     *)
(* active agent; the select widget is not on screen                       *)
BgInit ==
  /\ items = <<>>
  /\ maxItemsToShow = 1
  /\ isFocusedSupplied = FALSE
  /\ isFocused = FALSE
  /\ error = "none"
  /\ phase = "constructed"
  /\ activeIndex = 0
  /\ scrollOffset = 0
  /\ numberInput = <<>>
  /\ numberInputTimer = NoTimer
  /\ pending = {}
  /\ lastEvent = "init"
  /\ emitted = <<>>
  /\ prevActive = 0
  /\ prevScroll = 0
  /\ prevTimer = "none"
  /\ prevInput = <<>>
  /\ digitFrom = NoIndex
  /\ lostFocusWith = "none"
  /\ navOnly = TRUE
  /\ startIndex = 0
  /\ downs = 0
  /\ ups = 0
  /\ bgPhase = "ready"
  /\ bgArgs \in ArgStrings
  /\ bgAgent \in BOOLEAN
  /\ bgCommand = "none"
  /\ bgResult = "none"
  /\ bgCalls = <<>>
  /\ bgHistory = <<>>

BgNext ==
  \/ BgStart
  \/ BgStop
  \/ BgList
  \/ BgGet
  \/ BgLogs
  \/ BgMessage
  \/ BgDelete

BgSpec == BgInit /\ [][BgNext]_vars

TypeOK ==
  /\ Len(items) \in 0..MaxItems
  /\ isFocusedSupplied \in BOOLEAN
  /\ error \in {"none", "TypeError"}
  /\ maxItemsToShow \in 1..MaxWindow
  /\ isFocused \in BOOLEAN
  /\ phase \in {"constructed", "mounted", "unmounted", "crashed"}
  /\ numberInputTimer \in Nat
  /\ Len(numberInput) <= MaxBuf
(* ------------------------- vocabulary of the claims ------------------- *)
ItemCount == Len(items)

NoSelectEmitted == \A i \in DOMAIN emitted : emitted[i].cb # "onSelect"

(* the buffer s denotes a number between 1 and the item count *)
Denotes(s) == Len(s) > 0 /\ ParseInt(s) >= 1 /\ ParseInt(s) <= ItemCount

EveryPrefixDenotes(s) ==
  Len(s) > 0 /\ \A k \in 1..Len(s) : Denotes(SubSeq(s, 1, k))

(* ------------------------------- claims ------------------------------- *)

(* C1: once an up, down or confirm key has been handled, no timer is      *)
(* pending and numberInput is empty, whatever was pending before; after a *)
(* down key that followed a valid digit nothing is left that could emit   *)
(* onSelect for the digit's target, and the down key itself emits none.   *)
C1_NavConfirmCancelsTimer ==
  lastEvent \in {"up", "down", "confirm"} =>
    /\ pending = {}
    /\ numberInput = <<>>
    /\ (lastEvent = "down" => NoSelectEmitted)

C1_Witness ==
  /\ lastEvent = "down"
  /\ prevTimer = "commit"
  /\ pending = {}
  /\ numberInput = <<>>

(* C2: after the unmount no timer is pending, so no callback is emitted   *)
(* in the unmounted phase.                                                *)
C2_UnmountCancelsTimer ==
  phase = "unmounted" => (pending = {} /\ emitted = <<>>)

C2_Witness ==
  /\ phase = "unmounted"
  /\ lastEvent = "unmount"
  /\ prevTimer = "commit"
  /\ pending = {}

(* C3: while the widget is mounted and unfocused after losing focus with  *)
(* a commit timer pending, no operation emits a callback.                 *)
C3_NoCallbackAfterFocusLoss ==
  (phase = "mounted" /\ ~isFocused /\ lostFocusWith = "commit") => emitted = <<>>

(* C4: after a digit that leaves a buffer whose every prefix denotes an   *)
(* item, activeIndex is the buffer's number minus 1, no onSelect has been *)
(* emitted and exactly one timer, the commit for that item, is pending;   *)
(* when that timer fires, exactly one onSelect is emitted, with the value *)
(* of the item the whole buffer denotes, and nothing is left pending.     *)
C4_DigitsThenCommit ==
  /\ (lastEvent = "digit" /\ EveryPrefixDenotes(numberInput)) =>
       /\ activeIndex = ParseInt(numberInput) - 1
       /\ NoSelectEmitted
       /\ Cardinality(pending) = 1
       /\ \A t \in pending :
            t.kind = "commit" /\ t.value = items[ParseInt(numberInput)]
  /\ (lastEvent = "timer" /\ EveryPrefixDenotes(prevInput)) =>
       /\ emitted = <<[cb |-> "onSelect", value |-> items[ParseInt(prevInput)]]>>
       /\ activeIndex = ParseInt(prevInput) - 1
       /\ pending = {}
       /\ numberInput = <<>>

C4_Witness ==
  /\ lastEvent = "timer"
  /\ Len(prevInput) = 2
  /\ EveryPrefixDenotes(prevInput)
  /\ ParseInt(prevInput) >= 10
  /\ Len(emitted) = 1
  /\ emitted[1].cb = "onSelect"
  /\ emitted[1].value = items[ParseInt(prevInput)]

(* C5: a digit typed into the empty buffer whose number is not between 1  *)
(* and the item count leaves activeIndex as it was, emits nothing and     *)
(* leaves only a reset timer pending; when the timer of such a buffer     *)
(* fires, numberInput is empty, nothing is pending and nothing is emitted.*)
C5_OutOfRangeDigit ==
  /\ (lastEvent = "digit" /\ prevInput = <<>> /\ ~Denotes(numberInput)) =>
       /\ activeIndex = prevActive
       /\ emitted = <<>>
       /\ Cardinality(pending) = 1
       /\ \A t \in pending : t.kind = "reset"
  /\ (lastEvent = "timer" /\ Len(prevInput) = 1 /\ ~Denotes(prevInput)) =>
       /\ numberInput = <<>>
       /\ emitted = <<>>
       /\ pending = {}
       /\ activeIndex = prevActive

C5_Witness ==
  /\ lastEvent = "timer"
  /\ prevInput = <<"9">>
  /\ ItemCount = 5
  /\ numberInput = <<>>
  /\ emitted = <<>>

(* C6 as stated: a down key handled while the commit of a valid digit is  *)
(* pending moves the cursor one wrap-around step from the index that was  *)
(* active before the digit.                                               *)
C6_DownStepsFromIndexBeforeDigit ==
  (lastEvent = "down" /\ prevTimer = "commit" /\ digitFrom # NoIndex) =>
    activeIndex = (digitFrom + 1) % ItemCount

(* C6 amended: while a commit timer is pending the cursor is on the       *)
(* digit-targeted item, and a down key handled then moves it one          *)
(* wrap-around step from that item.                                       *)
C6_DownStepsFromDigitTarget ==
  /\ TimerKind(pending) = "commit" =>
       (Len(numberInput) > 0 /\ activeIndex = ParseInt(numberInput) - 1)
  /\ (lastEvent = "down" /\ prevTimer = "commit" /\ digitFrom # NoIndex) =>
       activeIndex = (prevActive + 1) % ItemCount

C6_Witness ==
  /\ lastEvent = "down"
  /\ prevTimer = "commit"
  /\ digitFrom # NoIndex
  /\ digitFrom # prevActive
  /\ activeIndex = (prevActive + 1) % ItemCount
  /\ activeIndex # (digitFrom + 1) % ItemCount

(* C7: at most one scheduled timer is pending.                            *)
C7_AtMostOneTimer == Cardinality(pending) <= 1

C7_Witness ==
  /\ lastEvent = "digit"
  /\ prevTimer # "none"
  /\ Cardinality(pending) = 1

(* C8: after a sequence of up and down keys only, activeIndex is          *)
(* (initialIndex + downs - ups) mod itemCount.                            *)
C8_NavigationSum ==
  (ItemCount > 0 /\ navOnly) => activeIndex = (startIndex + downs - ups) % ItemCount

C8_Witness ==
  /\ navOnly
  /\ ItemCount = 3
  /\ startIndex = 1
  /\ downs = 1
  /\ ups = 4
  /\ activeIndex = 1

(* C9: once mounted, after every operation the active row is inside the   *)
(* window and the window starts between 0 and max(0, itemCount - window). *)
C9_ScrollWindow ==
  (ItemCount > 0 /\ phase # "constructed") =>
    /\ scrollOffset <= activeIndex
    /\ activeIndex < scrollOffset + maxItemsToShow
    /\ 0 <= scrollOffset
    /\ scrollOffset <= Max(0, ItemCount - maxItemsToShow)

C9_Witness ==
  /\ lastEvent = "down"
  /\ scrollOffset > 0
  /\ activeIndex = scrollOffset + maxItemsToShow - 1
  /\ prevActive = activeIndex - 1

(* C10 as stated: onHighlight is emitted with the active item's value by  *)
(* every operation that changes activeIndex and by the initial mount (of  *)
(* a list that has an active item).                                       *)
C10_HighlightOnChangeAndMount ==
  (ItemCount > 0 /\ (lastEvent = "mount" \/ activeIndex # prevActive)) =>
    emitted = <<[cb |-> "onHighlight", value |-> items[activeIndex + 1]]>>

(* C10 amended: onHighlight is emitted with the newly active item's value *)
(* by every operation that changes activeIndex (up, down, digit); the     *)
(* initial mount emits nothing.                                           *)
C10_HighlightOnChange ==
  /\ activeIndex # prevActive =>
       emitted = <<[cb |-> "onHighlight", value |-> items[activeIndex + 1]]>>
  /\ lastEvent = "mount" => emitted = <<>>

C10_Witness ==
  /\ lastEvent = "digit"
  /\ activeIndex # prevActive
  /\ emitted = <<[cb |-> "onHighlight", value |-> items[activeIndex + 1]]>>

(* C11: with an empty item list no key event is accepted, whatever the    *)
(* focus flag: no key handler has run, no error was raised, the buffer is *)
(* empty, no timer is scheduled and nothing is emitted.                   *)
C11_EmptyListInactive ==
  ItemCount = 0 =>
    /\ lastEvent \notin {"up", "down", "confirm", "digit", "other", "crash"}
    /\ error = "none"
    /\ numberInput = <<>>
    /\ pending = {}
    /\ emitted = <<>>
    /\ activeIndex = prevActive
    /\ scrollOffset = 0

(* C12: a key that is none of up/k, down/j, return or a digit leaves      *)
(* activeIndex, scrollOffset, numberInput and the pending timer as they   *)
(* were, emits nothing and raises no error.                               *)
C12_OtherKeyIgnored ==
  lastEvent = "other" =>
    /\ activeIndex = prevActive
    /\ scrollOffset = prevScroll
    /\ numberInput = prevInput
    /\ TimerKind(pending) = prevTimer
    /\ Cardinality(pending) = (IF prevTimer = "none" THEN 0 ELSE 1)
    /\ emitted = <<>>
    /\ error = "none"
    /\ phase = "mounted"

C12_Witness ==
  /\ lastEvent = "other"
  /\ prevTimer = "commit"
  /\ Len(numberInput) = 2
  /\ Cardinality(pending) = 1

(* C13: in every state the number of visible rows is the smaller of the   *)
(* window size and the item count.                                        *)
C13_VisibleRowCount ==
  Len(VisibleItems) =
    (IF maxItemsToShow <= ItemCount THEN maxItemsToShow ELSE ItemCount)

C13_Witness ==
  /\ ItemCount > maxItemsToShow
  /\ scrollOffset = ItemCount - maxItemsToShow
  /\ activeIndex = ItemCount - 1
  /\ VisibleItems = SubSeq(items, scrollOffset + 1, ItemCount)
  /\ Len(VisibleItems) = maxItemsToShow

(* C14: a digit typed while the commit of a buffer denoting an item is    *)
(* pending, and making the whole buffer exceed the item count, leaves the *)
(* cursor on the earlier target, emits nothing and leaves exactly one     *)
(* timer pending, a reset; when that timer fires no onSelect is emitted.  *)
C14_PrefixValidWholeOutOfRange ==
  /\ (lastEvent = "digit" /\ Denotes(prevInput) /\ ParseInt(numberInput) > ItemCount) =>
       /\ prevTimer = "commit"
       /\ activeIndex = prevActive
       /\ activeIndex = ParseInt(prevInput) - 1
       /\ emitted = <<>>
       /\ Cardinality(pending) = 1
       /\ \A t \in pending : t.kind = "reset"
  /\ (lastEvent = "timer" /\ Len(prevInput) >= 2 /\ ParseInt(prevInput) > ItemCount) =>
       /\ emitted = <<>>
       /\ pending = {}
       /\ numberInput = <<>>

C14_Witness ==
  /\ lastEvent = "timer"
  /\ prevInput = <<"1", "0">>
  /\ ItemCount = 9
  /\ activeIndex = 0
  /\ emitted = <<>>

(* C15: with a non-empty list activeIndex is always the index of an       *)
(* existing item, no handler fails reading an item, and every callback    *)
(* carries the value of an existing item.                                 *)
C15_ActiveIndexInRange ==
  ItemCount > 0 =>
    /\ activeIndex >= 0
    /\ activeIndex < ItemCount
    /\ error = "none"
    /\ \A i \in DOMAIN emitted : \E k \in DOMAIN items : emitted[i].value = items[k]

C15_Witness ==
  /\ ItemCount > 1
  /\ lastEvent = "up"
  /\ prevActive = 0
  /\ activeIndex = ItemCount - 1
  /\ Len(emitted) = 1

Clamp(x, lo, hi) == IF x < lo THEN lo ELSE IF x > hi THEN hi ELSE x

(* C16: after an operation that changed activeIndex to a (and after the   *)
(* mount), the settled scrollOffset is a when a was above the window,     *)
(* a - windowSize + 1 clamped to [0, itemCount - windowSize] when a was   *)
(* at or below its end, and the previous scrollOffset otherwise.          *)
C16_ScrollThreeCases ==
  (ItemCount > 0 /\ (activeIndex # prevActive \/ lastEvent = "mount")) =>
    scrollOffset =
      (IF activeIndex < prevScroll THEN activeIndex
       ELSE IF activeIndex >= prevScroll + maxItemsToShow
         THEN Clamp(activeIndex - maxItemsToShow + 1, 0, ItemCount - maxItemsToShow)
       ELSE prevScroll)

C16_Witness ==
  /\ lastEvent = "digit"
  /\ prevScroll > 0
  /\ activeIndex >= prevScroll + maxItemsToShow
  /\ scrollOffset = activeIndex - maxItemsToShow + 1
  /\ scrollOffset > prevScroll

(* C17: every onSelect, from a return key or from a commit timer, carries *)
(* the value of the item at the activeIndex of the state it is emitted in.*)
C17_SelectIsHighlighted ==
  \A i \in DOMAIN emitted :
    emitted[i].cb = "onSelect" =>
      (ItemCount > 0 /\ activeIndex + 1 \in DOMAIN items
        /\ emitted[i].value = items[activeIndex + 1])

C17_Witness ==
  /\ lastEvent = "timer"
  /\ prevTimer = "commit"
  /\ prevInput = <<"0", "3">>
  /\ activeIndex = 2
  /\ emitted = <<[cb |-> "onSelect", value |-> items[3]]>>

(* C18: a return key handled while the commit of a buffer denoting an     *)
(* item is pending emits exactly one onSelect, for that item, and leaves  *)
(* no timer pending that could emit it again.                             *)
C18_DigitThenConfirmSelectsOnce ==
  (lastEvent = "confirm" /\ prevTimer = "commit" /\ Denotes(prevInput)) =>
    /\ emitted = <<[cb |-> "onSelect", value |-> items[ParseInt(prevInput)]]>>
    /\ pending = {}
    /\ numberInput = <<>>

C18_Witness ==
  /\ lastEvent = "confirm"
  /\ prevTimer = "commit"
  /\ prevInput = <<"2">>
  /\ emitted = <<[cb |-> "onSelect", value |-> items[2]]>>
  /\ pending = {}

(* C19: while the widget is mounted a non-empty numberInput always has    *)
(* its one timer pending, and, timers being fired eventually, it leads to *)
(* an empty numberInput with no timer pending (or to the end of the       *)
(* mounted phase).                                                        *)
C19_BufferingEnds ==
  /\ []((phase = "mounted" /\ numberInput # <<>>) => Cardinality(pending) = 1)
  /\ ((phase = "mounted" /\ numberInput # <<>>)
        ~> ((numberInput = <<>> /\ pending = {}) \/ phase # "mounted"))

C19_Witness ==
  /\ phase = "mounted"
  /\ lastEvent = "timer"
  /\ Len(prevInput) = 2
  /\ prevTimer = "reset"
  /\ numberInput = <<>>
  /\ pending = {}
(* a string that is empty or made of whitespace only *)
AllWhitespace(s) == \A i \in DOMAIN s : s[i] \in {" ", "\t"}

ArgCommands == {"start", "stop", "get", "logs", "message", "delete"}

(* C20: when a subcommand that requires an argument (start, stop, get,    *)
(* logs, message, delete) has run on an args string that is empty or      *)
(* whitespace only, it has returned an error message, no operation of the *)
(* active agent was invoked and nothing was added to the client history.  *)
C20_BlankArgRejected ==
  (bgPhase = "done" /\ bgCommand \in ArgCommands /\ AllWhitespace(bgArgs)) =>
    /\ bgResult = "error"
    /\ bgCalls = <<>>
    /\ bgHistory = <<>>

(* the string s without its leading spaces *)
RECURSIVE SkipSpaces(_)
SkipSpaces(s) ==
  IF s # <<>> /\ Head(s) = " " THEN SkipSpaces(Tail(s)) ELSE s

(* the characters of s before its first space (all of s if it has none) *)
RECURSIVE UpToSpace(_)
UpToSpace(s) ==
  IF s = <<>> \/ Head(s) = " " THEN <<>> ELSE <<Head(s)>> \o UpToSpace(Tail(s))

(* the first space-delimited token of s, and the text after the space     *)
(* that follows that token                                                *)
FirstToken(s) == UpToSpace(SkipSpaces(s))

AfterFirstToken(s) ==
  LET rest == SkipSpaces(s)
  IN  SubSeq(rest, Len(UpToSpace(rest)) + 2, Len(rest))

(* C21: when the message subcommand has accepted its args string and      *)
(* forwarded to messageTask, the forwarded id is non-empty and is the     *)
(* first space-delimited token of the args, and the forwarded message is  *)
(* the text after the space that follows that token.                      *)
C21_MessageIdIsFirstToken ==
  (bgPhase = "done" /\ bgCommand = "message" /\ bgCalls # <<>>) =>
    /\ bgCalls[1].id # <<>>
    /\ bgCalls[1].id = FirstToken(bgArgs)
    /\ bgCalls[1].message = AfterFirstToken(bgArgs)

=============================================================================
